---------------------------- MODULE Spec2Model ----------------------------
(***************************************************************************)
(* Model of the exon coverage program of cassette_reannotation:            *)
(*   src/src/lib.rs       cigar2exons, get_gene_name, get_name             *)
(*   src/src/exon_cov.rs  write_exon_cov (interval extraction and merge),  *)
(*                        write_exon_cov_to_file (per-interval tasks on a  *)
(*                        CpuPool, collection, sort and report)            *)
(*                                                                         *)
(* Conventions.  Vec indices are 1-based here (row index r of the model is *)
(* row r-1 of the program).  Option<T> is <<>> for None and <<x>> for      *)
(* Some(x).  A Range<u64> is a record [start, end], half open.  An f64     *)
(* quotient is kept as the exact fraction [num, den]; rpkm also keeps the  *)
(* power of ten of its scale factor, which does not fit a machine integer  *)
(* of the checker.                                                         *)
(***************************************************************************)
EXTENDS Integers, Sequences, FiniteSets, TLC

VARIABLES
    pc,             \* position of the main thread
    \* ---- cigar2exons (lib.rs) ----
    cigar,          \* the CigarStringView being projected
    start_pos,      \* the `pos` argument
    ci,             \* index of the next operation of the for loop
    cpos,           \* the local `pos` cursor
    cigar_out,      \* the local `exons` vector
    \* ---- write_exon_cov (exon_cov.rs) ----
    annot,          \* IndexedAnnotation: [rows, row2children]
    options,        \* Options: gene_type, transcript_type, exon_type, cpu_threads
    gene_row,       \* loop index of `for (gene_row, gene) in annot.rows`
    unmerged_exons, \* HashMap (seqname,strand) -> Vec<(Range, Option<row>)>
    merged_exons,   \* HashMap (seqname,strand) -> Vec<(Range, Option<row>)>
    keys_todo,      \* keys of `for key in &keys` not yet visited
    cur_key,        \* Option: the key of the current iteration
    exon_idx,       \* index of the next element of `for exon in unmerged.iter()`
    \* ---- write_exon_cov_to_file (exon_cov.rs) ----
    report,         \* which call of write_exon_cov_to_file: "unmerged" or "merged"
    exons,          \* the `exons` argument: HashMap key -> Vec<(Range, Option<row>)>
    total_reads,    \* u64
    bamstrand,      \* Vec<Option<bool>>, one entry per bam file
    tidmaps,        \* per bam file, the chromosomes its tid map holds
    bam_reads,      \* the records the region queries of the bam files can return
    read_budget,    \* how many records one task's region queries return at most
    pool_size,      \* threads of the CpuPool
    spawn_keys,     \* keys of `for key in exons.keys()` not yet visited
    spawn_key,      \* Option: the key of the current iteration
    spawn_idx,      \* index of the next element of `for exon in exons`
    tasks,          \* pair_futures: one record per spawned future, with its closure's state
    wait_idx,       \* index of the next future of `for future in pair_futures`
    rows,           \* the `rows` vector
    write_idx,      \* index of the next element of `for row in rows`
    output          \* lines handed to the BufWriter, in order

vars == <<pc, cigar, start_pos, ci, cpos, cigar_out,
          annot, options, gene_row, unmerged_exons, merged_exons,
          keys_todo, cur_key, exon_idx,
          report, exons, total_reads, bamstrand, tidmaps, bam_reads,
          read_budget, pool_size, spawn_keys, spawn_key, spawn_idx, tasks,
          wait_idx, rows, write_idx, output>>

cigarVars == <<cigar, start_pos, ci, cpos, cigar_out>>
annotVars == <<annot, options, gene_row, unmerged_exons, merged_exons,
               keys_todo, cur_key, exon_idx>>
inputVars == <<total_reads, bamstrand, tidmaps, bam_reads, read_budget>>
fileVars  == <<report, exons, total_reads, bamstrand, tidmaps, bam_reads,
               read_budget, pool_size, spawn_keys, spawn_key, spawn_idx, tasks,
               wait_idx, rows, write_idx, output>>

----------------------------------------------------------------------------
(* Bounds of the model *)

MaxCigarLen == 2
MaxOpLen == 1
MaxStartPos == 1
MaxCoord == 3
MaxExons == 3
MaxRows == 3
MaxIntervals == 2
MaxThreads == 1
MaxExonLen == 2
MaxReads == 2

----------------------------------------------------------------------------
(* Generic helpers *)

None == <<>>
Some(x) == <<x>>
IsSome(o) == o # <<>>
Unwrap(o) == o[1]

Min(a, b) == IF a <= b THEN a ELSE b
Max(a, b) == IF a >= b THEN a ELSE b

Range(s, e) == [start |-> s, end |-> e]

\* All sequences over S of length at most n
SeqsUpTo(S, n) == UNION {[1..k -> S] : k \in 0..n}

RECURSIVE SumSeq(_)
SumSeq(s) == IF s = <<>> THEN 0 ELSE s[1] + SumSeq(Tail(s))

----------------------------------------------------------------------------
(* lib.rs: cigar2exons *)

CigarKinds == {"Match", "Ins", "Del", "RefSkip", "SoftClip", "HardClip",
               "Pad", "Equal", "Diff"}

Op(k, n) == [kind |-> k, len |-> n]

\* One iteration of `for op in cigar { match op {...} }` on the loop state
\* st = [pos, exons].
CigarOpDelNoAdvance(st, op) ==
    IF op.kind = "Match"
    THEN [pos   |-> st.pos + op.len,
          exons |-> IF op.len > 0
                    THEN Append(st.exons, Range(st.pos + op.len - op.len, st.pos + op.len))
                    ELSE st.exons]
    ELSE IF op.kind \in {"RefSkip", "Equal", "Diff"}
    THEN [pos |-> st.pos + op.len, exons |-> st.exons]
    ELSE st

CigarOp(st, op) ==
    IF op.kind = "Match"
    THEN [pos   |-> st.pos + op.len,
          exons |-> IF op.len > 0
                    THEN Append(st.exons, Range(st.pos + op.len - op.len, st.pos + op.len))
                    ELSE st.exons]
    ELSE IF op.kind \in {"RefSkip", "Del", "Equal", "Diff"}
    THEN [pos |-> st.pos + op.len, exons |-> st.exons]
    ELSE st  \* Ins, SoftClip, HardClip, Pad: ()

RECURSIVE CigarFold(_, _)
CigarFold(st, ops) ==
    IF ops = <<>> THEN st ELSE CigarFold(CigarOp(st, ops[1]), Tail(ops))

\* cigar2exons(cigar, pos): always Ok(exons)
cigar2exons(ops, pos) == CigarFold([pos |-> pos, exons |-> <<>>], ops).exons

----------------------------------------------------------------------------
(* Values of the variables a specification does not exercise *)

CigarIdle ==
    /\ cigar = <<>> /\ start_pos = 0 /\ ci = 1 /\ cpos = 0 /\ cigar_out = <<>>

AnnotIdle ==
    /\ annot = [rows |-> <<>>, row2children |-> <<>>]
    /\ options = [gene_type |-> {"gene"}, transcript_type |-> {},
                  exon_type |-> {"exon"}, merged_outfile |-> None,
                  cpu_threads |-> 1]
    /\ gene_row = 1
    /\ unmerged_exons = <<>> /\ merged_exons = <<>>
    /\ keys_todo = {} /\ cur_key = None /\ exon_idx = 1

FileStart ==
    /\ report = "unmerged" /\ exons = <<>> /\ pool_size = 1
    /\ spawn_keys = {} /\ spawn_key = None /\ spawn_idx = 1
    /\ tasks = <<>> /\ wait_idx = 1 /\ rows = <<>> /\ write_idx = 1
    /\ output = <<>>

FileIdle ==
    /\ FileStart
    /\ total_reads = 1 /\ bamstrand = <<>> /\ tidmaps = <<>>
    /\ bam_reads = {} /\ read_budget = 0

----------------------------------------------------------------------------
(* Specification SpecCigar: cigar2exons run one loop iteration at a time *)

CigarOps == {Op(k, n) : k \in CigarKinds, n \in 0..MaxOpLen}

\* The projections worked out in the specification's testable properties
CigarExamples ==
    { <<<<Op("Match", 5)>>, 100>>,
      <<<<Op("Match", 3), Op("Del", 2), Op("Match", 4)>>, 0>>,
      <<<<Op("SoftClip", 10), Op("Match", 5)>>, 0>> }

CigarInputs ==
    (SeqsUpTo(CigarOps, MaxCigarLen) \X (0..MaxStartPos)) \cup CigarExamples

InitCigar ==
    /\ pc = "cigar"
    /\ \E inp \in CigarInputs :
          /\ cigar = inp[1]
          /\ start_pos = inp[2]
          /\ cpos = inp[2]
    /\ ci = 1
    /\ cigar_out = <<>>
    /\ AnnotIdle /\ FileIdle

\* lib.rs 47-66: one iteration of the for loop
CigarStep ==
    /\ pc = "cigar"
    /\ ci <= Len(cigar)
    /\ LET st == CigarOp([pos |-> cpos, exons |-> cigar_out], cigar[ci])
       IN /\ cpos' = st.pos
          /\ cigar_out' = st.exons
    /\ ci' = ci + 1
    /\ UNCHANGED <<pc, cigar, start_pos>>
    /\ UNCHANGED annotVars /\ UNCHANGED fileVars

\* lib.rs 67: Ok(exons)
CigarReturn ==
    /\ pc = "cigar"
    /\ ci > Len(cigar)
    /\ pc' = "cigar_done"
    /\ UNCHANGED cigarVars
    /\ UNCHANGED annotVars /\ UNCHANGED fileVars

NextCigar == CigarStep \/ CigarReturn

SpecCigar == InitCigar /\ [][NextCigar]_vars

----------------------------------------------------------------------------
(* Claims on cigar2exons *)

RefConsuming == {"Match", "Del", "RefSkip", "Equal", "Diff"}
MatchLike == {"Match", "Equal", "Diff"}

\* Summed lengths of the reference-consuming operations before index i
RECURSIVE RefConsumedBefore(_, _)
RefConsumedBefore(ops, i) ==
    IF i <= 1 THEN 0
    ELSE RefConsumedBefore(ops, i - 1)
         + (IF ops[i-1].kind \in RefConsuming THEN ops[i-1].len ELSE 0)

\* The ranges of the operations of the given kinds with non-zero length, in
\* the order of the operations
RECURSIVE RangesOfKinds(_, _, _, _)
RangesOfKinds(ops, pos, kinds, i) ==
    IF i > Len(ops) THEN <<>>
    ELSE (IF ops[i].kind \in kinds /\ ops[i].len > 0
          THEN <<Range(pos + RefConsumedBefore(ops, i),
                       pos + RefConsumedBefore(ops, i) + ops[i].len)>>
          ELSE <<>>)
         \o RangesOfKinds(ops, pos, kinds, i + 1)

\* C3 (as claimed): the result holds one range for every match, equal and
\* diff operation of non-zero length, and for no other operation, in the
\* order of the operations.
C3_RangePerMatchEqualDiff ==
    pc = "cigar_done" => cigar_out = RangesOfKinds(cigar, start_pos, MatchLike, 1)

\* C4: every loop iteration that emits a range emits it at the start position
\* plus the summed lengths of the preceding reference-consuming operations;
\* Del and RefSkip advance the cursor and emit nothing; Ins, SoftClip,
\* HardClip and Pad leave cursor and result alone; so the two worked examples
\* come out as [0,3),[5,9) and [0,5).
C4_StepRule ==
    (pc = "cigar" /\ ci' = ci + 1) =>
        LET op == cigar[ci] IN
        /\ op.kind \in {"Del", "RefSkip"} =>
              cpos' = cpos + op.len /\ cigar_out' = cigar_out
        /\ op.kind \in {"Ins", "SoftClip", "HardClip", "Pad"} =>
              cpos' = cpos /\ cigar_out' = cigar_out
        /\ cigar_out' # cigar_out =>
              /\ Len(cigar_out') = Len(cigar_out) + 1
              /\ SubSeq(cigar_out', 1, Len(cigar_out)) = cigar_out
              /\ cigar_out'[Len(cigar_out')].start
                    = start_pos + RefConsumedBefore(cigar, ci)

C4_Examples ==
    pc = "cigar_done" =>
        /\ (cigar = <<Op("Match", 3), Op("Del", 2), Op("Match", 4)>> /\ start_pos = 0)
              => cigar_out = <<Range(0, 3), Range(5, 9)>>
        /\ (cigar = <<Op("SoftClip", 10), Op("Match", 5)>> /\ start_pos = 0)
              => cigar_out = <<Range(0, 5)>>

C4_CursorAdvance == [][C4_StepRule]_vars /\ []C4_Examples

\* A deletion between two matches has been projected
C4_Witness ==
    /\ pc = "cigar_done"
    /\ cigar = <<Op("Match", 3), Op("Del", 2), Op("Match", 4)>>
    /\ cigar_out = <<Range(0, 3), Range(5, 9)>>

----------------------------------------------------------------------------
(* exon_cov.rs: write_exon_cov, interval extraction (99-130) *)

\* HashMap::get
MapGet(m, k) == IF k \in DOMAIN m THEN Some(m[k]) ELSE None

\* HashMap::entry(k).or_insert_with(Vec::new).push(v)
MapPush(m, k, v) ==
    IF k \in DOMAIN m THEN [m EXCEPT ![k] = Append(@, v)]
    ELSE m @@ (k :> <<v>>)

\* HashMap::entry(k).or_insert_with(Vec::new)
MapEnsure(m, k) == IF k \in DOMAIN m THEN m ELSE m @@ (k :> <<>>)

\* (Range<u64>, Option<usize>)
Entry(r, o) == [range |-> r, origin |-> o]

\* exon_cov.rs 308-316 (run): the defaults of the feature type lists
RunDefault(given, dflt) == IF given = {} THEN {dflt} ELSE given

\* exon_cov.rs 101
GeneAccepted(opts, gene) ==
    opts.gene_type = {} \/ gene.feature_type \in opts.gene_type

\* exon_cov.rs 109-112
TranscriptAcceptedNoStrand(opts, gene, transcript) ==
    /\ (opts.transcript_type = {} \/ transcript.feature_type \in opts.transcript_type)
    /\ transcript.seqname = gene.seqname

TranscriptAccepted(opts, gene, transcript) ==
    /\ (opts.transcript_type = {} \/ transcript.feature_type \in opts.transcript_type)
    /\ transcript.seqname = gene.seqname
    /\ transcript.strand = gene.strand

\* exon_cov.rs 119
ExonAccepted(opts, exon) ==
    opts.exon_type = {} \/ exon.feature_type \in opts.exon_type

\* exon_cov.rs 117-124: the loop over the exon rows of one transcript
RECURSIVE PushExons(_, _, _, _)
PushExons(m, an, opts, exon_rows) ==
    IF exon_rows = <<>> THEN m
    ELSE LET exon_row == exon_rows[1]
             exon == an.rows[exon_row]
             m1 == IF ExonAccepted(opts, exon)
                   THEN MapPush(m, <<exon.seqname, exon.strand>>,
                                Entry(Range(exon.start - 1, exon.end), Some(exon_row)))
                   ELSE m
         IN PushExons(m1, an, opts, Tail(exon_rows))

\* exon_cov.rs 105-127: the loop over the child rows of one gene
RECURSIVE PushTranscripts(_, _, _, _, _)
PushTranscripts(m, an, opts, gene, feature_rows) ==
    IF feature_rows = <<>> THEN m
    ELSE LET transcript_row == feature_rows[1]
             transcript == an.rows[transcript_row]
             kids == MapGet(an.row2children, transcript_row)
             m1 == IF TranscriptAccepted(opts, gene, transcript) /\ IsSome(kids)
                   THEN PushExons(m, an, opts, Unwrap(kids))
                   ELSE m
         IN PushTranscripts(m1, an, opts, gene, Tail(feature_rows))

\* exon_cov.rs 100-130: one iteration of
\* `for (gene_row, gene) in annot.rows.iter().enumerate()`
ExtractGene ==
    /\ pc = "extract"
    /\ gene_row <= Len(annot.rows)
    /\ LET gene == annot.rows[gene_row]
           kids == MapGet(annot.row2children, gene_row)
       IN unmerged_exons' =
            IF GeneAccepted(options, gene) /\ IsSome(kids)
            THEN PushTranscripts(unmerged_exons, annot, options, gene, Unwrap(kids))
            ELSE unmerged_exons
    /\ gene_row' = gene_row + 1
    /\ UNCHANGED <<pc, annot, options, merged_exons, keys_todo, cur_key, exon_idx>>
    /\ UNCHANGED cigarVars /\ UNCHANGED fileVars

\* exon_cov.rs 131-132: the loop is over; `keys` is collected
ExtractDone ==
    /\ pc = "extract"
    /\ gene_row > Len(annot.rows)
    /\ pc' = "merge"
    /\ keys_todo' = DOMAIN unmerged_exons
    /\ UNCHANGED <<annot, options, gene_row, unmerged_exons, merged_exons,
                   cur_key, exon_idx>>
    /\ UNCHANGED cigarVars /\ UNCHANGED fileVars

----------------------------------------------------------------------------
(* exon_cov.rs: write_exon_cov, interval merge (131-150) *)

\* Vec::sort_by_key(|u| u.0.start): a stable sort on the start
RECURSIVE InsertByStart(_, _)
InsertByStart(sorted, e) ==
    IF sorted = <<>> THEN <<e>>
    ELSE IF e.range.start < sorted[1].range.start THEN <<e>> \o sorted
    ELSE <<sorted[1]>> \o InsertByStart(Tail(sorted), e)

RECURSIVE SortFrom(_, _)
SortFrom(sorted, rest) ==
    IF rest = <<>> THEN sorted
    ELSE SortFrom(InsertByStart(sorted, rest[1]), Tail(rest))

SortByStartUnsorted(s) == s

SortByStart(s) == SortFrom(<<>>, s)

\* The last interval ended where the overlapping exon starts
MergeExonEndAtStart(merged, exon) ==
    IF /\ merged # <<>>
       /\ exon.range.start < merged[Len(merged)].range.end
       /\ merged[Len(merged)].range.start < exon.range.end
    THEN [merged EXCEPT ![Len(merged)].range.end = exon.range.start]
    ELSE Append(merged, Entry(exon.range, None))

\* exon_cov.rs 138-147: the body of `for exon in unmerged.iter()`
MergeExon(merged, exon) ==
    IF /\ merged # <<>>
       /\ exon.range.start < merged[Len(merged)].range.end
       /\ merged[Len(merged)].range.start < exon.range.end
    THEN [merged EXCEPT ![Len(merged)].range.end = exon.range.end]
    ELSE Append(merged, Entry(exon.range, None))

RECURSIVE MergeFold(_, _)
MergeFold(merged, unmerged) ==
    IF unmerged = <<>> THEN merged
    ELSE MergeFold(MergeExon(merged, unmerged[1]), Tail(unmerged))

\* exon_cov.rs 133-136: `for key in &keys` takes the next key, sorts its group in
\* place and makes its entry of merged_exons.  A HashMap's key order is
\* unspecified: any remaining key may be the next one.
MergeBeginKey ==
    /\ pc = "merge"
    /\ cur_key = None
    /\ \E key \in keys_todo :
          /\ unmerged_exons' = [unmerged_exons EXCEPT ![key] = SortByStart(@)]
          /\ merged_exons' = MapEnsure(merged_exons, key)
          /\ cur_key' = Some(key)
          /\ keys_todo' = keys_todo \ {key}
    /\ exon_idx' = 1
    /\ UNCHANGED <<pc, annot, options, gene_row>>
    /\ UNCHANGED cigarVars /\ UNCHANGED fileVars

\* exon_cov.rs 137-148: one iteration of `for exon in unmerged.iter()`
MergeStep ==
    /\ pc = "merge"
    /\ IsSome(cur_key)
    /\ exon_idx <= Len(unmerged_exons[Unwrap(cur_key)])
    /\ merged_exons' =
         [merged_exons EXCEPT ![Unwrap(cur_key)] =
            MergeExon(@, unmerged_exons[Unwrap(cur_key)][exon_idx])]
    /\ exon_idx' = exon_idx + 1
    /\ UNCHANGED <<pc, annot, options, gene_row, unmerged_exons, keys_todo, cur_key>>
    /\ UNCHANGED cigarVars /\ UNCHANGED fileVars

\* exon_cov.rs 149: the group is exhausted
MergeEndKey ==
    /\ pc = "merge"
    /\ IsSome(cur_key)
    /\ exon_idx > Len(unmerged_exons[Unwrap(cur_key)])
    /\ cur_key' = None
    /\ UNCHANGED <<pc, annot, options, gene_row, unmerged_exons, merged_exons,
                   keys_todo, exon_idx>>
    /\ UNCHANGED cigarVars /\ UNCHANGED fileVars

\* exon_cov.rs 150-152: all keys visited; the reports are written next
MergeDone ==
    /\ pc = "merge"
    /\ cur_key = None
    /\ keys_todo = {}
    /\ pc' = "merged"
    /\ UNCHANGED annotVars
    /\ UNCHANGED cigarVars /\ UNCHANGED fileVars

NextAnnot ==
    \/ ExtractGene
    \/ ExtractDone
    \/ MergeBeginKey
    \/ MergeStep
    \/ MergeEndKey
    \/ MergeDone

----------------------------------------------------------------------------
(* Annotation inputs *)

\* A feature row of IndexedAnnotation.rows; start and end are 1-based inclusive
Row(ft, chr, strand, s, e, attrs) ==
    [feature_type |-> ft, seqname |-> chr, strand |-> strand,
     start |-> s, end |-> e, attributes |-> attrs]

\* The elements of a set of numbers as an ascending sequence
RECURSIVE SetToSeq(_)
SetToSeq(S) ==
    IF S = {} THEN <<>>
    ELSE LET m == CHOOSE x \in S : \A y \in S : x <= y
         IN <<m>> \o SetToSeq(S \ {m})

\* Options as run() leaves them (exon_cov.rs 308-316)
OptionsOf(gene_type, transcript_type, exon_type, merged_outfile, cpu_threads) ==
    [gene_type       |-> RunDefault(gene_type, "gene"),
     transcript_type |-> transcript_type,
     exon_type       |-> RunDefault(exon_type, "exon"),
     merged_outfile  |-> merged_outfile,
     cpu_threads     |-> cpu_threads]

AnnotStart ==
    /\ pc = "extract"
    /\ gene_row = 1
    /\ unmerged_exons = <<>>
    /\ merged_exons = <<>>
    /\ keys_todo = {}
    /\ cur_key = None
    /\ exon_idx = 1

----------------------------------------------------------------------------
(* Specification SpecMerge: write_exon_cov on one gene with one transcript, *)
(* whose exons take every start and end within the bounds                    *)

\* 1-based inclusive coordinates start <= end of an exon row
ExonCoords == {<<s, e>> : s \in 1..MaxCoord, e \in 1..MaxCoord} \cap
              {c \in (1..MaxCoord) \X (1..MaxCoord) : c[1] <= c[2]}

MergeAnnot(coords, other_strand) ==
    LET n == Len(coords)
        exon_rows == [i \in 1..n |->
                        Row("exon", "chr1", "+", coords[i][1], coords[i][2], <<>>)]
        extra == IF other_strand THEN <<Row("exon", "chr1", "-", 1, 2, <<>>)>> ELSE <<>>
        all == <<Row("gene", "chr1", "+", 1, MaxCoord, <<>>),
                 Row("mRNA", "chr1", "+", 1, MaxCoord, <<>>)>> \o exon_rows \o extra
    IN [rows |-> all,
        row2children |-> (1 :> <<2>>) @@ (2 :> [i \in 1..(Len(all) - 2) |-> i + 2])]

InitMerge ==
    /\ AnnotStart
    /\ \E coords \in SeqsUpTo(ExonCoords, MaxExons), other_strand \in BOOLEAN :
          annot = MergeAnnot(coords, other_strand)
    /\ options = OptionsOf({}, {}, {}, None, 1)
    /\ CigarIdle /\ FileIdle

SpecMerge == InitMerge /\ [][NextAnnot]_vars

\* The reference positions a list of intervals covers
Positions(entries) ==
    UNION {entries[i].range.start .. (entries[i].range.end - 1) : i \in DOMAIN entries}

Overlap(a, b) == a.start < b.end /\ b.start < a.end

\* C1 (as claimed): after the merge, every group's merged intervals cover
\* exactly the reference positions its raw intervals cover.
C1_MergedCoversSame ==
    pc = "merged" =>
        \A key \in DOMAIN unmerged_exons :
            /\ key \in DOMAIN merged_exons
            /\ Positions(merged_exons[key]) = Positions(unmerged_exons[key])

\* C2: after the merge, every group's merged list is in ascending start order
\* and pairwise non-overlapping, and sorting and merging it again returns it
\* unchanged.
C2_MergedDisjointIdempotent ==
    pc = "merged" =>
        \A key \in DOMAIN merged_exons :
            LET m == merged_exons[key] IN
            /\ \A i, j \in DOMAIN m :
                  i < j => /\ m[i].range.start <= m[j].range.start
                           /\ ~Overlap(m[i].range, m[j].range)
            /\ MergeFold(<<>>, SortByStart(m)) = m

\* A group whose raw intervals were given out of order, some merged and some
\* kept apart
C2_Witness ==
    /\ pc = "merged"
    /\ \E key \in DOMAIN merged_exons :
          /\ Len(merged_exons[key]) >= 2
          /\ Len(unmerged_exons[key]) > Len(merged_exons[key])
          /\ \E i \in 3..(Len(annot.rows) - 1) :
                annot.rows[i].start > annot.rows[i+1].start

----------------------------------------------------------------------------
(* Specification SpecExtract: write_exon_cov on every annotation graph within *)
(* the bounds                                                                 *)

\* Feature type, chromosome and strand of a row
RowLabels ==
    { <<"gene", "chr1", "+">>, <<"gene", "chr1", "-">>,
      <<"mRNA", "chr1", "+">>, <<"mRNA", "chr1", "-">>, <<"mRNA", "chr2", "+">>,
      <<"exon", "chr1", "+">>, <<"exon", "chr1", "-">> }

\* Row r spans r..r or r..r+1
GraphRow(r, label) == Row(label[1], label[2], label[3], r, r + (r % 2), <<>>)

\* Children lists: a row's children come later in the file
ChildChoices == [1..MaxRows -> SUBSET (1..MaxRows)] \cap
                {f \in [1..MaxRows -> SUBSET (1..MaxRows)] :
                    \A r \in 1..MaxRows : \A c \in f[r] : c > r}

GraphAnnot(labels, kids) ==
    [rows |-> [r \in 1..MaxRows |-> GraphRow(r, labels[r])],
     row2children |->
        [r \in {x \in 1..MaxRows : kids[x] # {}} |-> SetToSeq(kids[r])]]

InitExtract ==
    /\ AnnotStart
    /\ \E labels \in [1..MaxRows -> RowLabels], kids \in ChildChoices :
          annot = GraphAnnot(labels, kids)
    /\ \E transcript_type \in {{}, {"mRNA"}} :
          options = OptionsOf({}, transcript_type, {}, None, 1)
    /\ CigarIdle /\ FileIdle

NextExtract == ExtractGene \/ ExtractDone

SpecExtract == InitExtract /\ [][NextExtract]_vars

\* All raw intervals, whatever their key
RawEntries ==
    UNION {{<<key, unmerged_exons[key][i]>> : i \in DOMAIN unmerged_exons[key]} :
             key \in DOMAIN unmerged_exons}

ChildrenOf(r) ==
    IF r \in DOMAIN annot.row2children
    THEN {annot.row2children[r][i] : i \in DOMAIN annot.row2children[r]}
    ELSE {}

InList(list, ft) == list = {} \/ ft \in list

\* Exon row e hangs, through an accepted transcript, under a gene row that the
\* loop has already visited
ExonReachable(e, visited) ==
    \E g \in visited, t \in 1..Len(annot.rows) :
        /\ annot.rows[g].feature_type \in options.gene_type
        /\ t \in ChildrenOf(g)
        /\ InList(options.transcript_type, annot.rows[t].feature_type)
        /\ annot.rows[t].seqname = annot.rows[g].seqname
        /\ annot.rows[t].strand = annot.rows[g].strand
        /\ e \in ChildrenOf(t)
        /\ InList(options.exon_type, annot.rows[e].feature_type)

\* C10: at every point of the extraction loop, and after it, an exon row has a
\* raw interval iff it is a child, of an allowed exon type, of a transcript row
\* of an allowed type (or any type when that list is empty) that has the
\* chromosome and strand of its parent, a gene row of an allowed gene type the
\* loop has visited; a transcript on another chromosome or strand adds
\* nothing; every raw interval is [start-1, end) of its origin row, under that
\* row's own chromosome and strand.
C10_ExtractedIffPath ==
    /\ \A e \in 1..Len(annot.rows) :
          (\E x \in RawEntries : x[2].origin = Some(e))
             <=> ExonReachable(e, 1..(gene_row - 1))
    /\ \A x \in RawEntries :
          /\ IsSome(x[2].origin)
          /\ LET exon == annot.rows[Unwrap(x[2].origin)] IN
             /\ x[1] = <<exon.seqname, exon.strand>>
             /\ x[2].range = Range(exon.start - 1, exon.end)

\* A gene with a transcript of an allowed type on the gene's strand, whose exon,
\* on the other strand, was extracted under the exon's own key
C10_Witness ==
    /\ pc = "merge"
    /\ options.transcript_type # {}
    /\ \E g, t, e \in 1..Len(annot.rows) :
          /\ annot.rows[g].feature_type \in options.gene_type
          /\ t \in ChildrenOf(g)
          /\ e \in ChildrenOf(t)
          /\ annot.rows[e].strand # annot.rows[g].strand
          /\ \E x \in RawEntries :
                x[2].origin = Some(e) /\ x[1] = <<"chr1", annot.rows[e].strand>>

----------------------------------------------------------------------------
(* lib.rs: get_gene_name, get_name (134-155) *)

EmptyMap == [x \in {} |-> x]

\* a.get(n1).or_else(|| a.get(n2).or_else(|| ...))
RECURSIVE FirstPresent(_, _)
FirstPresent(attrs, names) ==
    IF names = <<>> THEN None
    ELSE IF names[1] \in DOMAIN attrs THEN Some(attrs[names[1]])
    ELSE FirstPresent(attrs, Tail(names))

get_gene_name(row, an) ==
    FirstPresent(an.rows[row].attributes,
                 <<"Name", "ID", "gene_name", "gene", "gene_id">>)

\* The transcript identifier looked up in the order of the gene identifier
get_nameGeneOrder(row, an) ==
    FirstPresent(an.rows[row].attributes,
                 <<"Name", "ID", "gene_name", "gene", "gene_id">>)

get_name(row, an) ==
    FirstPresent(an.rows[row].attributes,
                 <<"transcript_name", "transcript", "Name", "ID", "transcript_id",
                   "gene_name", "gene", "gene_id">>)

----------------------------------------------------------------------------
(* exon_cov.rs: the closure of one interval's future (205-262) *)

\* The power of ten of the scale factor 1e10f64 of rpkm
RpkmScaleExp == 10

\* A qname that is not valid UTF-8
BadQname == "<not utf-8>"

\* str::from_utf8(read.qname())
FromUtf8(q) == IF q = BadQname THEN None ELSE Some(q)

\* exon_cov.rs 218: the read is skipped (`continue`) unless this holds
StrandKeptIgnoreReverse(is_read1strand, is_first, is_reverse, strand_is_plus) ==
    (is_read1strand = is_first) = strand_is_plus

StrandKept(is_read1strand, is_first, is_reverse, strand_is_plus) ==
    ((is_read1strand = is_first) = (~is_reverse)) = strand_is_plus

\* exon_cov.rs 227-231: what one projected range adds to exon_cov
RangeCovUnclipped(e, exon) ==
    IF e.start < exon.end /\ exon.start < e.end
    THEN e.end - e.start
    ELSE 0

RangeCov(e, exon) ==
    IF e.start < exon.end /\ exon.start < e.end
    THEN Min(e.end, exon.end) - Max(e.start, exon.start)
    ELSE 0

\* exon_cov.rs 226-232: `for e in exons`
RECURSIVE RangesCov(_, _)
RangesCov(es, exon) ==
    IF es = <<>> THEN 0 ELSE RangeCov(es[1], exon) + RangesCov(Tail(es), exon)

\* The state a future starts with (exon_cov.rs 196-207)
NewTask(key, exon) ==
    [key |-> key, exon |-> exon, st |-> "queued", i |-> 1,
     exon_cov |-> 0, exon_reads |-> {}, seen |-> <<>>, row |-> None]

\* A `?` returns Err from the closure: its locals are dropped
TaskErr(task) ==
    [task EXCEPT !.st = "err", !.exon_cov = 0, !.exon_reads = {}, !.seen = <<>>]

\* exon_cov.rs 215-232: the body of `for read in bam.records()` for a record
\* that was read without error
ScanRecord(task, rec, read1strand) ==
    LET strand_is_plus == task.key[2] = "+"
        noted == [task EXCEPT !.seen = Append(@, [bam |-> task.i, rec |-> rec])]
    IN IF IsSome(read1strand)
          /\ ~StrandKept(Unwrap(read1strand), rec.is_first, rec.is_reverse,
                         strand_is_plus)
       THEN noted
       ELSE IF FromUtf8(rec.qname) = None
       THEN TaskErr(task)
       ELSE [noted EXCEPT
               !.exon_reads = @ \cup {Unwrap(FromUtf8(rec.qname))},
               !.exon_cov = @ + RangesCov(cigar2exons(rec.cigar, rec.pos),
                                          task.exon.range)]

\* The records returned counted in place of the names
RpkmPerRecord(task, total) ==
    [num   |-> Len(task.seen),
     exp10 |-> RpkmScaleExp,
     den   |-> total * (task.exon.range.end - task.exon.range.start)]

\* exon_cov.rs 236-237
Rpkm(task, total) ==
    [num   |-> Cardinality(task.exon_reads),
     exp10 |-> RpkmScaleExp,
     den   |-> total * (task.exon.range.end - task.exon.range.start)]

\* exon_cov.rs 238-251
IdOf(name) == IF IsSome(name) THEN Unwrap(name) ELSE ""

\* exon_cov.rs 236-261: the Row the closure returns
MakeRow(task, total, an) ==
    LET exon_length == task.exon.range.end - task.exon.range.start IN
    [seqname |-> task.key[1],
     strand  |-> task.key[2],
     start   |-> task.exon.range.start,
     end     |-> task.exon.range.end,
     cov     |-> [num |-> task.exon_cov, den |-> exon_length],
     rpkm    |-> Rpkm(task, total),
     transcript_id |-> IF IsSome(task.exon.origin)
                       THEN IdOf(get_name(Unwrap(task.exon.origin), an)) ELSE "",
     gene_id |-> IF IsSome(task.exon.origin)
                 THEN IdOf(get_gene_name(Unwrap(task.exon.origin), an)) ELSE ""]

----------------------------------------------------------------------------
(* exon_cov.rs: Row and its derived order (62-72), rows.sort() (278) *)

Cmp(a, b) == IF a < b THEN -1 ELSE IF a > b THEN 1 ELSE 0

\* The UTF-8 bytes of the strings of the model
Utf8(s) ==
    CASE s = ""     -> <<>>
      [] s = "+"    -> <<43>>
      [] s = "-"    -> <<45>>
      [] s = "chr1" -> <<99, 104, 114, 49>>
      [] s = "chr2" -> <<99, 104, 114, 50>>
      [] s = "g1"   -> <<103, 49>>
      [] s = "g2"   -> <<103, 50>>
      [] s = "t1"   -> <<116, 49>>
      [] s = "t2"   -> <<116, 50>>

\* Ord for [u8]: lexicographic
RECURSIVE CmpBytes(_, _)
CmpBytes(a, b) ==
    IF a = <<>> THEN (IF b = <<>> THEN 0 ELSE -1)
    ELSE IF b = <<>> THEN 1
    ELSE IF a[1] # b[1] THEN Cmp(a[1], b[1])
    ELSE CmpBytes(Tail(a), Tail(b))

CmpStr(a, b) == CmpBytes(Utf8(a), Utf8(b))

\* Ord for OrderedFloat<f64> on the quotients num/den (den > 0)
CmpFrac(a, b) == Cmp(a.num * b.den, b.num * a.den)

RECURSIVE FirstNonZero(_)
FirstNonZero(cs) ==
    IF cs = <<>> THEN 0
    ELSE IF cs[1] # 0 THEN cs[1]
    ELSE FirstNonZero(Tail(cs))

\* #[derive(Ord)] on Row: the fields in declaration order
RowCmp(a, b) ==
    FirstNonZero(<<CmpStr(a.seqname, b.seqname),
                   CmpStr(a.strand, b.strand),
                   Cmp(a.start, b.start),
                   Cmp(a.end, b.end),
                   CmpFrac(a.cov, b.cov),
                   CmpFrac(a.rpkm, b.rpkm),
                   CmpStr(a.transcript_id, b.transcript_id),
                   CmpStr(a.gene_id, b.gene_id)>>)

RECURSIVE InsertRow(_, _)
InsertRow(sorted, r) ==
    IF sorted = <<>> THEN <<r>>
    ELSE IF RowCmp(r, sorted[1]) < 0 THEN <<r>> \o sorted
    ELSE <<sorted[1]>> \o InsertRow(Tail(sorted), r)

RECURSIVE SortRowsFrom(_, _)
SortRowsFrom(sorted, rest) ==
    IF rest = <<>> THEN sorted
    ELSE SortRowsFrom(InsertRow(sorted, rest[1]), Tail(rest))

SortRowsNoSort(rs) == rs

\* rows.sort()
SortRows(rs) == SortRowsFrom(<<>>, rs)

\* exon_cov.rs 269-276: what one waited future does to `rows`
CollectResultKeepErr(rs, task) ==
    IF task.st = "ok" THEN Append(rs, Unwrap(task.row))
    ELSE Append(rs, [seqname |-> task.key[1], strand |-> task.key[2],
                     start |-> task.exon.range.start, end |-> task.exon.range.end,
                     cov |-> [num |-> 0, den |-> 1],
                     rpkm |-> [num |-> 0, exp10 |-> RpkmScaleExp, den |-> 1],
                     transcript_id |-> "", gene_id |-> ""])

CollectResult(rs, task) ==
    IF task.st = "ok" THEN Append(rs, Unwrap(task.row)) ELSE rs

\* exon_cov.rs 280-289
HeaderLine ==
    <<"seqname", "strand", "start", "end", "cov", "rpkm", "transcript_id", "gene_id">>

\* exon_cov.rs 291-300
RowLine(r) ==
    <<r.seqname, r.strand, r.start, r.end, r.cov, r.rpkm, r.transcript_id, r.gene_id>>

----------------------------------------------------------------------------
(* exon_cov.rs: write_exon_cov_to_file (175-303), called for the unmerged     *)
(* report and then, when --merged is given, for the merged report (152-171)   *)

\* num_cpus::get() of the machine
NumCpus == 2

ResetFile ==
    /\ spawn_key' = None /\ spawn_idx' = 1
    /\ tasks' = <<>> /\ wait_idx' = 1 /\ rows' = <<>> /\ write_idx' = 1
    /\ output' = <<>>

\* exon_cov.rs 152-160, 186-192: the call for the unmerged report; the output
\* file is created and the pool made
BeginUnmerged ==
    /\ pc = "merged"
    /\ pc' = "spawn"
    /\ report' = "unmerged"
    /\ exons' = unmerged_exons
    /\ spawn_keys' = DOMAIN unmerged_exons
    /\ pool_size' = IF options.cpu_threads = 0 THEN NumCpus ELSE options.cpu_threads
    /\ ResetFile
    /\ UNCHANGED inputVars
    /\ UNCHANGED cigarVars /\ UNCHANGED annotVars

\* exon_cov.rs 161-170, 186-192: the call for the merged report
BeginMerged ==
    /\ pc = "file_done"
    /\ report = "unmerged"
    /\ IsSome(options.merged_outfile)
    /\ pc' = "spawn"
    /\ report' = "merged"
    /\ exons' = merged_exons
    /\ spawn_keys' = DOMAIN merged_exons
    /\ pool_size' = IF options.cpu_threads = 0 THEN NumCpus ELSE options.cpu_threads
    /\ ResetFile
    /\ UNCHANGED inputVars
    /\ UNCHANGED cigarVars /\ UNCHANGED annotVars

\* exon_cov.rs 188: File::create(&outfile)? fails; the error goes up to main
CreateFail ==
    /\ \/ pc = "merged"
       \/ pc = "file_done" /\ report = "unmerged" /\ IsSome(options.merged_outfile)
    /\ pc' = "io_error"
    /\ UNCHANGED cigarVars /\ UNCHANGED annotVars /\ UNCHANGED fileVars

\* exon_cov.rs 193-265: one iteration of the nested loops `for key in
\* exons.keys()`, `for exon in exons`: a future is spawned and pushed.  Keys come
\* in the HashMap's order, a key's intervals in the Vec's order; no key has an
\* empty Vec (a key is made by a push).
SpawnTask ==
    /\ pc = "spawn"
    /\ \E key \in (IF IsSome(spawn_key) THEN {Unwrap(spawn_key)} ELSE spawn_keys) :
          LET idx == IF IsSome(spawn_key) THEN spawn_idx ELSE 1 IN
          /\ tasks' = Append(tasks, NewTask(key, exons[key][idx]))
          /\ spawn_keys' = spawn_keys \ {key}
          /\ IF idx < Len(exons[key])
             THEN spawn_key' = Some(key) /\ spawn_idx' = idx + 1
             ELSE spawn_key' = None /\ spawn_idx' = 1
    /\ UNCHANGED <<pc, report, exons, pool_size, wait_idx, rows, write_idx, output>>
    /\ UNCHANGED inputVars
    /\ UNCHANGED cigarVars /\ UNCHANGED annotVars

\* exon_cov.rs 265-267: every future is spawned
SpawnDone ==
    /\ pc = "spawn"
    /\ spawn_key = None
    /\ spawn_keys = {}
    /\ pc' = "wait"
    /\ UNCHANGED cigarVars /\ UNCHANGED annotVars /\ UNCHANGED fileVars

Running == {t \in DOMAIN tasks : tasks[t].st \in {"scan", "reading"}}

TaskVarsOnly ==
    /\ UNCHANGED <<pc, report, exons, pool_size, spawn_keys, spawn_key, spawn_idx,
                   wait_idx, rows, write_idx, output>>
    /\ UNCHANGED inputVars
    /\ UNCHANGED cigarVars /\ UNCHANGED annotVars

\* A free thread of the pool takes a queued future (exon_cov.rs 205-207)
TaskStart(t) ==
    /\ tasks[t].st = "queued"
    /\ Cardinality(Running) < pool_size
    /\ tasks' = [tasks EXCEPT ![t].st = "scan"]
    /\ TaskVarsOnly

\* exon_cov.rs 208-211: the bam file has no tid for the chromosome
TaskSkipBam(t) ==
    /\ tasks[t].st = "scan"
    /\ tasks[t].i <= Len(bamstrand)
    /\ tasks[t].key[1] \notin tidmaps[tasks[t].i]
    /\ tasks' = [tasks EXCEPT ![t].i = @ + 1]
    /\ TaskVarsOnly

\* exon_cov.rs 212-213: the bam file is opened and the region fetched
TaskFetch(t) ==
    /\ tasks[t].st = "scan"
    /\ tasks[t].i <= Len(bamstrand)
    /\ tasks[t].key[1] \in tidmaps[tasks[t].i]
    /\ tasks' = [tasks EXCEPT ![t].st = "reading"]
    /\ TaskVarsOnly

\* exon_cov.rs 212-213: from_path or fetch fails
TaskFetchFail(t) ==
    /\ tasks[t].st = "scan"
    /\ tasks[t].i <= Len(bamstrand)
    /\ tasks[t].key[1] \in tidmaps[tasks[t].i]
    /\ tasks' = [tasks EXCEPT ![t] = TaskErr(@)]
    /\ TaskVarsOnly

\* exon_cov.rs 214-233: the region query returns one more record
TaskRead(t) ==
    /\ tasks[t].st = "reading"
    /\ Len(tasks[t].seen) < read_budget
    /\ \E rec \in bam_reads :
          tasks' = [tasks EXCEPT ![t] = ScanRecord(@, rec, bamstrand[tasks[t].i])]
    /\ TaskVarsOnly

\* exon_cov.rs 215: `read?` is an error
TaskReadFail(t) ==
    /\ tasks[t].st = "reading"
    /\ tasks' = [tasks EXCEPT ![t] = TaskErr(@)]
    /\ TaskVarsOnly

\* exon_cov.rs 233-234: the region query has no more records
TaskEndRecords(t) ==
    /\ tasks[t].st = "reading"
    /\ tasks' = [tasks EXCEPT ![t].st = "scan", ![t].i = @ + 1]
    /\ TaskVarsOnly

\* exon_cov.rs 235-261: all bam files scanned; the closure returns Ok(Row)
TaskFinish(t) ==
    /\ tasks[t].st = "scan"
    /\ tasks[t].i > Len(bamstrand)
    /\ tasks' = [tasks EXCEPT ![t].st = "ok",
                              ![t].row = Some(MakeRow(tasks[t], total_reads, annot))]
    /\ TaskVarsOnly

\* exon_cov.rs 268-277: future.wait() returns for the next future
MainWait ==
    /\ pc = "wait"
    /\ wait_idx <= Len(tasks)
    /\ tasks[wait_idx].st \in {"ok", "err"}
    /\ rows' = CollectResult(rows, tasks[wait_idx])
    /\ wait_idx' = wait_idx + 1
    /\ UNCHANGED <<pc, report, exons, pool_size, spawn_keys, spawn_key, spawn_idx,
                   tasks, write_idx, output>>
    /\ UNCHANGED inputVars
    /\ UNCHANGED cigarVars /\ UNCHANGED annotVars

\* exon_cov.rs 278
MainSort ==
    /\ pc = "wait"
    /\ wait_idx > Len(tasks)
    /\ rows' = SortRows(rows)
    /\ pc' = "header"
    /\ UNCHANGED <<report, exons, pool_size, spawn_keys, spawn_key, spawn_idx,
                   tasks, wait_idx, write_idx, output>>
    /\ UNCHANGED inputVars
    /\ UNCHANGED cigarVars /\ UNCHANGED annotVars

\* exon_cov.rs 280-289
WriteHeader ==
    /\ pc = "header"
    /\ output' = Append(output, HeaderLine)
    /\ pc' = "rows"
    /\ UNCHANGED <<report, exons, pool_size, spawn_keys, spawn_key, spawn_idx,
                   tasks, wait_idx, rows, write_idx>>
    /\ UNCHANGED inputVars
    /\ UNCHANGED cigarVars /\ UNCHANGED annotVars

\* exon_cov.rs 290-301: one iteration of `for row in rows`
WriteRow ==
    /\ pc = "rows"
    /\ write_idx <= Len(rows)
    /\ output' = Append(output, RowLine(rows[write_idx]))
    /\ write_idx' = write_idx + 1
    /\ UNCHANGED <<pc, report, exons, pool_size, spawn_keys, spawn_key, spawn_idx,
                   tasks, wait_idx, rows>>
    /\ UNCHANGED inputVars
    /\ UNCHANGED cigarVars /\ UNCHANGED annotVars

\* exon_cov.rs 289, 300: write_fmt(...)? fails; the error goes up to main
WriteFail ==
    /\ \/ pc = "header"
       \/ pc = "rows" /\ write_idx <= Len(rows)
    /\ pc' = "io_error"
    /\ UNCHANGED cigarVars /\ UNCHANGED annotVars /\ UNCHANGED fileVars

\* exon_cov.rs 302: Ok(())
FileDone ==
    /\ pc = "rows"
    /\ write_idx > Len(rows)
    /\ pc' = "file_done"
    /\ UNCHANGED cigarVars /\ UNCHANGED annotVars /\ UNCHANGED fileVars

\* exon_cov.rs 161, 171-172: no further report; write_exon_cov returns Ok(())
RunDone ==
    /\ pc = "file_done"
    /\ report = "merged" \/ options.merged_outfile = None
    /\ pc' = "done"
    /\ UNCHANGED cigarVars /\ UNCHANGED annotVars /\ UNCHANGED fileVars

\* The steps of the pool's threads, for any future
PoolStart      == \E t \in DOMAIN tasks : TaskStart(t)
PoolSkipBam    == \E t \in DOMAIN tasks : TaskSkipBam(t)
PoolFetch      == \E t \in DOMAIN tasks : TaskFetch(t)
PoolFetchFail  == \E t \in DOMAIN tasks : TaskFetchFail(t)
PoolRead       == \E t \in DOMAIN tasks : TaskRead(t)
PoolReadFail   == \E t \in DOMAIN tasks : TaskReadFail(t)
PoolEndRecords == \E t \in DOMAIN tasks : TaskEndRecords(t)
PoolFinish     == \E t \in DOMAIN tasks : TaskFinish(t)

NextFile ==
    \/ BeginUnmerged
    \/ BeginMerged
    \/ CreateFail
    \/ SpawnTask
    \/ SpawnDone
    \/ PoolStart
    \/ PoolSkipBam
    \/ PoolFetch
    \/ PoolFetchFail
    \/ PoolRead
    \/ PoolReadFail
    \/ PoolEndRecords
    \/ PoolFinish
    \/ MainWait
    \/ MainSort
    \/ WriteHeader
    \/ WriteRow
    \/ WriteFail
    \/ FileDone
    \/ RunDone

Next == NextAnnot \/ NextFile

----------------------------------------------------------------------------
(* Specification Spec: the whole of write_exon_cov on one gene with one       *)
(* transcript and a few exons, one unstranded bam file, every pool size       *)

AttrsA == ("gene_id" :> "g1") @@ ("transcript_id" :> "t1")
AttrsB == ("Name" :> "t2") @@ ("gene_id" :> "g2")

\* strand, start, end (1-based inclusive) and attributes of an exon row
SchedExons ==
    { <<"+", 2, 3, AttrsA>>, <<"+", 1, 2, AttrsB>>, <<"-", 1, 1, AttrsA>> }

SchedAnnot(labels) ==
    LET n == Len(labels)
        exon_rows == [i \in 1..n |->
                        Row("exon", "chr1", labels[i][1], labels[i][2], labels[i][3],
                            labels[i][4])]
    IN [rows |-> <<Row("gene", "chr1", "+", 1, 3, ("ID" :> "g1")),
                   Row("mRNA", "chr1", "+", 1, 3, ("ID" :> "t1"))>> \o exon_rows,
        row2children |-> (1 :> <<2>>) @@ (2 :> [i \in 1..n |-> i + 2])]

\* A record of a bam file: qname, the flags is_first_in_template and
\* is_reverse, pos and cigar
Read(q, first, reverse, pos, ops) ==
    [qname |-> q, is_first |-> first, is_reverse |-> reverse, pos |-> pos,
     cigar |-> ops]

Init ==
    /\ AnnotStart
    /\ \E labels \in SeqsUpTo(SchedExons, MaxIntervals) :
          annot = SchedAnnot(labels)
    /\ \E merged_outfile \in {None, Some("merged.tsv")}, cpu_threads \in 0..MaxThreads :
          options = OptionsOf({}, {}, {}, merged_outfile, cpu_threads)
    /\ FileStart
    /\ total_reads = 100
    /\ bamstrand = <<None>>
    /\ tidmaps \in {<<{"chr1"}>>, <<{}>>}
    /\ bam_reads = {Read("r1", TRUE, FALSE, 0, <<Op("Match", 2)>>)}
    /\ read_budget = 1
    /\ CigarIdle

Spec == Init /\ [][Next]_vars

----------------------------------------------------------------------------
(* Specification SpecEngine: the whole of write_exon_cov on one exon, with a  *)
(* bam file of each strand mode and every short sequence of records           *)

AlignA == <<0, <<Op("Match", 2)>>>>
AlignB == <<1, <<Op("Match", 1), Op("RefSkip", 1), Op("Match", 2)>>>>
AlignC == <<0, <<Op("SoftClip", 1), Op("Equal", 1), Op("Match", 3), Op("Ins", 1),
                 Op("Del", 1), Op("Match", 1)>>>>

EngineRead(q, first, reverse, align) == Read(q, first, reverse, align[1], align[2])

\* Two names that between them have every combination of the two flags, and
\* a record whose name is not UTF-8
EngineReads ==
    { EngineRead("r1", TRUE,  FALSE, AlignA), EngineRead("r1", TRUE,  TRUE,  AlignB),
      EngineRead("r1", FALSE, FALSE, AlignC),
      EngineRead("r2", TRUE,  TRUE,  AlignC), EngineRead("r2", FALSE, TRUE,  AlignB),
      EngineRead(BadQname, TRUE, FALSE, AlignA) }

EngineAnnot(strand, len) ==
    [rows |-> <<Row("gene", "chr1", strand, 1, 2 + len, ("ID" :> "g1")),
                Row("mRNA", "chr1", strand, 1, 2 + len, ("ID" :> "t1")),
                Row("exon", "chr1", strand, 2, 1 + len, AttrsA)>>,
     row2children |-> (1 :> <<2>>) @@ (2 :> <<3>>)]

\* Every bam file has the chromosome, or all but the second
EngineTidmaps ==
    {<<{"chr1"}, {"chr1"}, {"chr1"}>>, <<{"chr1"}, {}, {"chr1"}>>}

InitEngine ==
    /\ AnnotStart
    /\ \E strand \in {"+", "-"}, len \in 1..MaxExonLen :
          annot = EngineAnnot(strand, len)
    /\ options = OptionsOf({}, {}, {}, None, 1)
    /\ FileStart
    /\ total_reads \in {3, 1000000}
    /\ bamstrand = <<Some(TRUE), Some(FALSE), None>>
    /\ tidmaps \in EngineTidmaps
    /\ bam_reads = EngineReads
    /\ read_budget = MaxReads
    /\ CigarIdle

\* write_exon_cov without a merged_outfile: exon_cov.rs 161-171 is not taken
NextEngine ==
    \/ ExtractGene
    \/ ExtractDone
    \/ MergeBeginKey
    \/ MergeStep
    \/ MergeEndKey
    \/ MergeDone
    \/ BeginUnmerged
    \/ CreateFail
    \/ SpawnTask
    \/ SpawnDone
    \/ PoolStart
    \/ PoolSkipBam
    \/ PoolFetch
    \/ PoolFetchFail
    \/ PoolRead
    \/ PoolReadFail
    \/ PoolEndRecords
    \/ PoolFinish
    \/ MainWait
    \/ MainSort
    \/ WriteHeader
    \/ WriteRow
    \/ WriteFail
    \/ FileDone
    \/ RunDone

SpecEngine == InitEngine /\ [][NextEngine]_vars

----------------------------------------------------------------------------
(* Claims on the coverage of one interval (SpecEngine) *)

\* The strand test as the specification states it, for the record seen[k] of
\* a task: skipped for an unstranded bam file
KeptByRule(task, k) ==
    LET mode == bamstrand[task.seen[k].bam]
        rec == task.seen[k].rec
        interval_is_plus == task.key[2] = "+"
    IN \/ mode = None
       \/ (((Unwrap(mode) <=> rec.is_first) <=> ~rec.is_reverse) <=> interval_is_plus)

KeptIndices(task) == {k \in DOMAIN task.seen : KeptByRule(task, k)}

Live(task) == task.st \in {"reading", "scan", "ok"}

\* C5: when a task takes a record from a stranded bam file, the record counts
\* iff ((is_read1_plus_indicator = is_first) = (not is_reverse)) =
\* interval_is_plus: a record failing the test changes neither the coverage
\* total nor the set of read names (and cannot fail the task), a record passing
\* it, like every record of an unstranded bam file, has its name in the set.
C5_StepRule ==
    \A t \in DOMAIN tasks :
        (t \in DOMAIN tasks' /\ Len(tasks'[t].seen) = Len(tasks[t].seen) + 1) =>
            LET k == Len(tasks'[t].seen) IN
            IF KeptByRule(tasks'[t], k)
            THEN /\ tasks'[t].seen[k].rec.qname \in tasks'[t].exon_reads
                 /\ tasks'[t].exon_cov >= tasks[t].exon_cov
            ELSE /\ bamstrand[tasks'[t].seen[k].bam] # None
                 /\ tasks'[t].exon_cov = tasks[t].exon_cov
                 /\ tasks'[t].exon_reads = tasks[t].exon_reads
                 /\ tasks'[t].st = "reading"

C5_StrandFilter == [][C5_StepRule]_vars

\* A minus-strand interval for which a first mate on the forward strand, from
\* the bam file whose read 1 gives the strand, was skipped and another record
\* of that file kept
C5_Witness ==
    \E t \in DOMAIN tasks :
        /\ tasks[t].st = "ok"
        /\ tasks[t].key[2] = "-"
        /\ Len(tasks[t].seen) = 2
        /\ tasks[t].seen[1].bam = 1 /\ tasks[t].seen[2].bam = 1
        /\ tasks[t].seen[1].rec.is_first /\ ~tasks[t].seen[1].rec.is_reverse
        /\ tasks[t].seen[1].rec.qname = "r1"
        /\ tasks[t].exon_reads = {"r2"}

\* The reference positions two ranges share
CommonBases(r, iv) ==
    Cardinality((r.start .. (r.end - 1)) \cap (iv.start .. (iv.end - 1)))

\* What the ranges projected from one record add up to inside the interval
RecordBases(rec, iv) ==
    LET ranges == cigar2exons(rec.cigar, rec.pos)
    IN SumSeq([j \in DOMAIN ranges |-> CommonBases(ranges[j], iv)])

\* C6: a task's coverage total is the sum, over the kept records of the bam
\* files that have the interval's chromosome and over their projected ranges,
\* of min(range.end, interval.end) - max(range.start, interval.start) for the
\* overlapping ranges, each between 1 and the interval length, and of 0 for the
\* others; the row's cov is that total over the interval length; [15,25)
\* against [10,20) gives 5.
C6_CoverageTotal ==
    /\ RangeCov(Range(15, 25), Range(10, 20)) = 5
    /\ RangeCov(Range(20, 25), Range(10, 20)) = 0
    /\ \A t \in DOMAIN tasks :
          LET task == tasks[t]
              iv == task.exon.range
          IN Live(task) =>
             /\ task.exon_cov =
                  SumSeq([k \in DOMAIN task.seen |->
                            IF KeptByRule(task, k)
                            THEN RecordBases(task.seen[k].rec, iv) ELSE 0])
             /\ \A k \in DOMAIN task.seen :
                   /\ task.key[1] \in tidmaps[task.seen[k].bam]
                   /\ LET ranges == cigar2exons(task.seen[k].rec.cigar,
                                                task.seen[k].rec.pos)
                      IN \A j \in DOMAIN ranges :
                            IF Overlap(ranges[j], iv)
                            THEN /\ RangeCov(ranges[j], iv) =
                                      Min(ranges[j].end, iv.end)
                                        - Max(ranges[j].start, iv.start)
                                 /\ RangeCov(ranges[j], iv) = CommonBases(ranges[j], iv)
                                 /\ RangeCov(ranges[j], iv) >= 1
                                 /\ RangeCov(ranges[j], iv) <= iv.end - iv.start
                            ELSE RangeCov(ranges[j], iv) = 0
             /\ task.st = "ok" =>
                   Unwrap(task.row).cov = [num |-> task.exon_cov,
                                           den |-> iv.end - iv.start]

\* A finished task with a record of two ranges, one clipped by the interval
\* and one outside it
C6_Witness ==
    \E t \in DOMAIN tasks :
        /\ tasks[t].st = "ok"
        /\ tasks[t].exon.range = Range(1, 3)
        /\ \E k \in DOMAIN tasks[t].seen :
              /\ KeptByRule(tasks[t], k)
              /\ cigar2exons(tasks[t].seen[k].rec.cigar, tasks[t].seen[k].rec.pos)
                   = <<Range(1, 4), Range(5, 6)>>
        /\ Unwrap(tasks[t].row).cov.num >= 3

\* Whether num * 10^exp10 / den is the whole number v
RECURSIVE ScaledEquals(_, _)
ScaledEquals(q, v) ==
    IF q.exp10 > 0 /\ q.den % 10 = 0
    THEN ScaledEquals([num |-> q.num, exp10 |-> q.exp10 - 1, den |-> q.den \div 10], v)
    ELSE IF q.exp10 > 0 /\ v % 10 = 0
    THEN ScaledEquals([num |-> q.num, exp10 |-> q.exp10 - 1, den |-> q.den], v \div 10)
    ELSE q.exp10 = 0 /\ q.num = v * q.den

\* A task on an interval of length 1000 that kept one record of each of two names
TwoNamesOverThousand ==
    [NewTask(<<"chr1", "+">>, Entry(Range(0, 1000), None)) EXCEPT
        !.exon_reads = {"r1", "r2"},
        !.seen = <<[bam |-> 3, rec |-> EngineRead("r1", TRUE, FALSE, AlignA)],
                   [bam |-> 3, rec |-> EngineRead("r2", TRUE, TRUE, AlignC)]>>]

\* C7: a finished task's rpkm is 1e10 * n / (total_reads * interval length),
\* n the number of distinct names among the kept records of all bam files;
\* 2 names, 1000000 reads and length 1000 give 20.
C7_RpkmDistinctNames ==
    /\ ScaledEquals(Rpkm(TwoNamesOverThousand, 1000000), 20)
    /\ \A t \in DOMAIN tasks :
          tasks[t].st = "ok" =>
             Unwrap(tasks[t].row).rpkm =
                [num   |-> Cardinality({tasks[t].seen[k].rec.qname :
                                          k \in KeptIndices(tasks[t])}),
                 exp10 |-> 10,
                 den   |-> total_reads * (tasks[t].exon.range.end
                                            - tasks[t].exon.range.start)]

\* A finished task that kept two records of one name, from two bam files
C7_Witness ==
    \E t \in DOMAIN tasks :
        /\ tasks[t].st = "ok"
        /\ Len(tasks[t].seen) = 2
        /\ KeptIndices(tasks[t]) = {1, 2}
        /\ tasks[t].seen[1].bam # tasks[t].seen[2].bam
        /\ tasks[t].seen[1].rec.qname = tasks[t].seen[2].rec.qname
        /\ Unwrap(tasks[t].row).rpkm.num = 1

----------------------------------------------------------------------------
(* Claims on the tasks and the report (Spec) *)

Finished(task) == task.st \in {"ok", "err"}

OkTasks == {t \in DOMAIN tasks : tasks[t].st = "ok"}

\* How many intervals the collection of the current report holds
RECURSIVE CountIntervals(_, _)
CountIntervals(m, ks) ==
    IF ks = {} THEN 0
    ELSE LET k == CHOOSE x \in ks : TRUE
         IN Len(m[k]) + CountIntervals(m, ks \ {k})

Times(seq, x) == Cardinality({i \in DOMAIN seq : seq[i] = x})

\* C8 (steps): a step in which a task fails changes no other task, nothing of
\* the main thread and nothing of the report; waiting on a failed future adds
\* no row and goes on to the next future.
C8_StepRule ==
    /\ \A t \in DOMAIN tasks :
          (t \in DOMAIN tasks' /\ tasks[t].st # "err" /\ tasks'[t].st = "err") =>
             /\ \A u \in DOMAIN tasks : u # t => tasks'[u] = tasks[u]
             /\ UNCHANGED <<pc, rows, output, wait_idx, spawn_keys, spawn_key, spawn_idx>>
    /\ (pc = "wait" /\ wait_idx' = wait_idx + 1 /\ tasks[wait_idx].st = "err") =>
          pc' = "wait" /\ rows' = rows /\ tasks' = tasks

\* C8 (report): once a report is written, every interval of its collection had
\* a task, every task has completed, and the report holds, after the header,
\* one line for each task that succeeded and nothing else.
C8_ReportRule ==
    pc \in {"file_done", "done"} =>
        /\ Len(tasks) = CountIntervals(exons, DOMAIN exons)
        /\ \A t \in DOMAIN tasks : Finished(tasks[t])
        /\ Len(output) = 1 + Cardinality(OkTasks)
        /\ \A t \in OkTasks :
              LET line == RowLine(Unwrap(tasks[t].row)) IN
              Times(Tail(output), line) =
                 Cardinality({u \in OkTasks : RowLine(Unwrap(tasks[u].row)) = line})

\* C8: a failure in one interval's task removes only that interval's row.
C8_FailureIsLocal == [][C8_StepRule]_vars /\ []C8_ReportRule

\* A written report with a failed task and a row of a task spawned after it
C8_Witness ==
    /\ pc = "file_done"
    /\ Len(tasks) >= 2
    /\ tasks[1].st = "err"
    /\ tasks[2].st = "ok"
    /\ Len(output) = Len(tasks)

\* C9: nothing is written before every interval of the collection has a task
\* and every task has completed; what is written is the header and then the
\* rows of the successful tasks in ascending order of (seqname, strand, start,
\* end, cov, rpkm, transcript_id, gene_id), an order in which only equal rows
\* compare equal, so the report does not depend on the order of completion.
C9_SortedAfterAll ==
    /\ output # <<>> =>
          /\ spawn_keys = {} /\ spawn_key = None
          /\ Len(tasks) = CountIntervals(exons, DOMAIN exons)
          /\ \A t \in DOMAIN tasks : Finished(tasks[t])
          /\ output = <<HeaderLine>> \o [i \in 1..(Len(output) - 1) |-> RowLine(rows[i])]
          /\ Len(rows) = Cardinality(OkTasks)
          /\ \A t \in OkTasks:
                Times(rows, Unwrap(tasks[t].row)) =
                   Cardinality({u \in OkTasks : tasks[u].row = tasks[t].row})
          /\ \A i, j \in DOMAIN rows :
                /\ i < j => RowCmp(rows[i], rows[j]) <= 0
                /\ RowCmp(rows[i], rows[j]) = 0 => rows[i] = rows[j]
    /\ pc \in {"file_done", "done"} => Len(output) = 1 + Len(rows)

\* A report of two rows, written with two threads, whose first row is of the
\* task spawned last
C9_Witness ==
    /\ pc = "file_done"
    /\ pool_size = 2
    /\ Len(tasks) = 2
    /\ Len(output) = 3
    /\ output[2] = RowLine(Unwrap(tasks[2].row))
    /\ output[3] = RowLine(Unwrap(tasks[1].row))
    /\ output[2] # output[3]

----------------------------------------------------------------------------
(* Claim on the intervals of the two collections (SpecMerge) *)

NonEmptyEntries(m) ==
    \A key \in DOMAIN m :
        \A i \in DOMAIN m[key] : m[key][i].range.start < m[key][i].range.end

\* C12: with annotation rows of 1-based inclusive start <= end, every interval
\* of the raw collection and of the merged collection has start < end after
\* every step of the extraction and of the merge fold, and so has the interval
\* of every task, whose length divides cov and rpkm.
C12_StartBeforeEnd ==
    /\ \A r \in DOMAIN annot.rows :
          1 <= annot.rows[r].start /\ annot.rows[r].start <= annot.rows[r].end
    /\ NonEmptyEntries(unmerged_exons)
    /\ NonEmptyEntries(merged_exons)
    /\ \A t \in DOMAIN tasks :
          tasks[t].exon.range.end - tasks[t].exon.range.start > 0

\* The merge is over, a row of a single base gave a raw interval of length 1,
\* and the fold pulled back the end of an interval it extended
C12_Witness ==
    /\ pc = "merged"
    /\ \E key \in DOMAIN unmerged_exons :
          /\ \E i \in DOMAIN unmerged_exons[key] :
                LET e == unmerged_exons[key][i] IN
                /\ annot.rows[Unwrap(e.origin)].start = annot.rows[Unwrap(e.origin)].end
                /\ e.range.end = e.range.start + 1
          /\ Len(merged_exons[key]) < Len(unmerged_exons[key])
          /\ Positions(merged_exons[key]) # Positions(unmerged_exons[key])

----------------------------------------------------------------------------
(* Specification SpecIds: the whole of write_exon_cov on one exon whose row   *)
(* has any set of the attributes the identifiers are looked up in             *)

\* The attributes get_gene_name and get_name look up, each with its own value
IdValue ==
    ("transcript_name" :> "tn") @@ ("transcript" :> "tr") @@ ("Name" :> "nm") @@
    ("ID" :> "id") @@ ("transcript_id" :> "ti") @@ ("gene_name" :> "gn") @@
    ("gene" :> "ge") @@ ("gene_id" :> "gi")

IdsAnnot(present) ==
    [rows |-> <<Row("gene", "chr1", "+", 1, 3, ("ID" :> "g0") @@ ("Name" :> "G0")),
                Row("mRNA", "chr1", "+", 1, 3,
                    ("ID" :> "t0") @@ ("transcript_name" :> "T0")),
                Row("exon", "chr1", "+", 2, 3, [n \in present |-> IdValue[n]])>>,
     row2children |-> (1 :> <<2>>) @@ (2 :> <<3>>)]

InitIds ==
    /\ AnnotStart
    /\ \E present \in SUBSET (DOMAIN IdValue) :
          annot = IdsAnnot(present)
    /\ \E merged_outfile \in {None, Some("merged.tsv")} :
          options = OptionsOf({}, {}, {}, merged_outfile, 1)
    /\ FileStart
    /\ total_reads = 100
    /\ bamstrand = <<None>>
    /\ tidmaps \in {<<{"chr1"}>>, <<{}>>}
    /\ bam_reads = {Read("r1", TRUE, FALSE, 0, <<Op("Match", 2)>>)}
    /\ read_budget = 1
    /\ CigarIdle

SpecIds == InitIds /\ [][Next]_vars

GeneIdOrder == <<"Name", "ID", "gene_name", "gene", "gene_id">>

TranscriptIdOrder ==
    <<"transcript_name", "transcript", "Name", "ID", "transcript_id",
      "gene_name", "gene", "gene_id">>

\* The value of the first attribute of the list that the row has, or ""
FirstListed(attrs, names) ==
    LET at == {i \in DOMAIN names : names[i] \in DOMAIN attrs}
    IN IF at = {} THEN ""
       ELSE attrs[names[CHOOSE i \in at : \A j \in at : i <= j]]

\* C11: a row of the merged report has empty transcript_id and gene_id; a row
\* of the unmerged report comes from an exon row, its origin, and has as gene_id
\* the first attribute of the origin present among Name, ID, gene_name, gene,
\* gene_id and as transcript_id the first present among transcript_name,
\* transcript, Name, ID, transcript_id, gene_name, gene, gene_id, each "" when
\* none is present; the lines written carry those rows.
C11_ReportIds ==
    /\ \A t \in OkTasks :
          LET row == Unwrap(tasks[t].row)
              origin == tasks[t].exon.origin
          IN IF report = "merged"
             THEN row.transcript_id = "" /\ row.gene_id = ""
             ELSE /\ IsSome(origin)
                  /\ annot.rows[Unwrap(origin)].feature_type = "exon"
                  /\ annot.rows[Unwrap(origin)].start - 1 = row.start
                  /\ annot.rows[Unwrap(origin)].end = row.end
                  /\ row.gene_id =
                        FirstListed(annot.rows[Unwrap(origin)].attributes, GeneIdOrder)
                  /\ row.transcript_id =
                        FirstListed(annot.rows[Unwrap(origin)].attributes,
                                    TranscriptIdOrder)
    /\ \A i \in 2..Len(output) :
          \E t \in OkTasks :
             /\ output[i] = RowLine(Unwrap(tasks[t].row))
             /\ output[i][7] = Unwrap(tasks[t].row).transcript_id
             /\ output[i][8] = Unwrap(tasks[t].row).gene_id

\* The unmerged report is written for an exon row with the attributes ID,
\* transcript, transcript_id and gene_id: the two identifiers differ
C11_Witness ==
    /\ pc = "file_done"
    /\ report = "unmerged"
    /\ DOMAIN annot.rows[3].attributes = {"ID", "transcript", "transcript_id", "gene_id"}
    /\ Len(output) = 2
    /\ output[2][7] = "tr"
    /\ output[2][8] = "id"

============================================================================
